---- MODULE Spec2Model ----
(***************************************************************************)
(* Zettelkasten bot (src/bot.py): the intake queue with its clarification   *)
(* questions, the chat commands, and the processing pipeline that writes    *)
(* structured records to the document store.                                *)
(*                                                                          *)
(* Text is modelled as a sequence of one-character strings, so that         *)
(* strip(), startswith(), make_slug() and the substring test of             *)
(* find_existing_file are computed character by character.                  *)
(*                                                                          *)
(* The chat transport delivers every outgoing message (reply_text does not  *)
(* raise).  Every message of the chat, incoming or outgoing, takes the next *)
(* message id.  The "time" field of a note is left out: no handler reads it *)
(* except to print it in the journal.                                       *)
(***************************************************************************)
EXTENDS Integers, Sequences, FiniteSets, TLC

\* ------------------------------------------------------------------ bounds
MaxQueue  == 2     \* notes the queue may hold
MaxMsgId  == 8     \* message ids of the chat: 0 .. MaxMsgId-1
MaxBlocks == 2     \* records in one response of the generative service

\* Python's None, and a value that is present: an optional value is <<>> or <<v>>
None == <<>>

Some(v) == <<v>>

\* ------------------------------------------------------------- pure helpers
Whitespace == {" "}

RECURSIVE lstrip(_)
lstrip(s) ==
    IF s # <<>> /\ Head(s) \in Whitespace THEN lstrip(Tail(s)) ELSE s

RECURSIVE rstrip(_)
rstrip(s) ==
    IF s # <<>> /\ s[Len(s)] \in Whitespace
    THEN rstrip(SubSeq(s, 1, Len(s) - 1)) ELSE s

strip(s) == rstrip(lstrip(s))

startswith(s, c) == s # <<>> /\ Head(s) = c

extract_prefix_unstripped(content) ==
    IF startswith(content, "@") THEN <<"people", content>>
    ELSE IF startswith(content, "#") THEN <<"projects", content>>
    ELSE IF startswith(content, "!") THEN <<"meetings", content>>
    ELSE <<"", content>>

\* extract_prefix: the prefix type of a text ("" for None), and the stripped text
extract_prefix(content) ==
    LET c == strip(content) IN
    IF startswith(c, "@") THEN <<"people", c>>
    ELSE IF startswith(c, "#") THEN <<"projects", c>>
    ELSE IF startswith(c, "!") THEN <<"meetings", c>>
    ELSE <<"", c>>

\* make_slug ---------------------------------------------------------------
Letters == {"A", "B", "P", "a", "b", "d", "f", "l", "m", "p", "q", "t"}

Digits == {"0"}

\* \w of the regular expressions
WordChars == Letters \cup Digits \cup {"_"}

\* str.lower() on one character
LowerChar(c) ==
    IF c = "A" THEN "a" ELSE IF c = "B" THEN "b" ELSE IF c = "P" THEN "p" ELSE c

\* re.sub(r'[^\w\s-]', '', name)
RECURSIVE DropUnsafe(_)
DropUnsafe(s) ==
    IF s = <<>> THEN <<>>
    ELSE IF Head(s) \in WordChars \cup Whitespace \cup {"-"}
         THEN <<Head(s)>> \o DropUnsafe(Tail(s))
         ELSE DropUnsafe(Tail(s))

lower(s) == [k \in 1 .. Len(s) |-> LowerChar(s[k])]

\* re.sub(r'[\s_]+', '-', slug): every run of whitespace and underscores
\* becomes one hyphen
RECURSIVE JoinRuns(_)
JoinRuns(s) ==
    IF s = <<>> THEN <<>>
    ELSE IF Head(s) \in Whitespace \cup {"_"}
         THEN IF Tail(s) # <<>> /\ Head(Tail(s)) \in Whitespace \cup {"_"}
              THEN JoinRuns(Tail(s))
              ELSE <<"-">> \o JoinRuns(Tail(s))
         ELSE <<Head(s)>> \o JoinRuns(Tail(s))

SlugMax == 60

Truncate(s, n) == IF Len(s) > n THEN SubSeq(s, 1, n) ELSE s

make_slug(name) ==
    Truncate(JoinRuns(lower(strip(DropUnsafe(name)))), SlugMax)

Md == <<".", "m", "d">>

\* slug in f.name
Contains(sub, s) ==
    \E i \in 0 .. (Len(s) - Len(sub)) : SubSeq(s, i + 1, i + Len(sub)) = sub

\* The order in which the store lists the files of a folder: by name, byte by
\* byte
CharCode(c) ==
    CASE c = "-" -> 45 [] c = "." -> 46 [] c = "0" -> 48
      [] c = "9" -> 57
      [] c = "a" -> 97 [] c = "b" -> 98 [] c = "d" -> 100 [] c = "f" -> 102
      [] c = "l" -> 108 [] c = "m" -> 109 [] c = "p" -> 112 [] c = "q" -> 113
      [] c = "t" -> 116

RECURSIVE NameBefore(_, _)
NameBefore(a, b) ==
    IF a = <<>> THEN b # <<>>
    ELSE IF b = <<>> THEN FALSE
    ELSE IF Head(a) = Head(b) THEN NameBefore(Tail(a), Tail(b))
    ELSE CharCode(Head(a)) < CharCode(Head(b))

\* ------------------------------------------------------------------- inputs
\* msg.text of a text message: an unprefixed text and a prefixed one with
\* leading whitespace
Texts == { <<"a">>, <<" ", "@", "a">> }

\* update.message.caption or "": no caption, a caption
Captions == { <<>>, <<"c">> }

MsgIds == 0 .. (MaxMsgId - 1)

\* The values of the person and project fields of a record
PersonNames == { <<"A", "l", " ", "B", ",">>, <<"A", "l">> }

ProjectNames == { <<"P", "_", "q">> }

\* The records the generative service may return: type and the name the
\* record is written under (person, project, meeting_name or title)
Blocks ==
    { [type |-> "tasks", name |-> <<"t">>],
      [type |-> "meetings", name |-> <<"m">>],
      [type |-> "fleeting", name |-> <<"f">>] }
    \cup { [type |-> "people", name |-> n] : n \in PersonNames }
    \cup { [type |-> "projects", name |-> n] : n \in ProjectNames }

\* parse_notes_output of a response: up to MaxBlocks records, in any order
BlockSeqs == UNION { [1 .. n -> Blocks] : n \in 0 .. MaxBlocks }

\* ------------------------------------------------------------------- state
VARIABLES
    note_queue,            \* list of queued notes
    personal_mode,         \* mode flag
    pending_questions,     \* message id of a question -> queue index
    nextMsgId,             \* the id the next message of the chat gets
    reply,                 \* the last message the bot sent
    assigned,              \* the idx and the note of each intake since the last clear
    people,                \* document store: listing of the people folder
    projects,              \* document store: listing of the projects folder
    meetings,              \* document store: listing of the meetings folder
    journal,               \* document store: today's journal, <<>> if absent
    pc,                    \* where cmd_process stands
    queue_snapshot,        \* cmd_process: the copy of the queue it works on
    messages,              \* pipeline: the content of the structuring request
    pq_before,             \* pending_questions when the run started
    task_notes,            \* pipeline: task records not yet written
    other_notes,           \* pipeline: other records not yet written
    task_links_by_source,  \* pipeline: source index -> links of written tasks
    pushed,                \* pipeline: the records written so far
    existing,              \* upsert: what find_existing_file returned
    attempts,              \* the write calls of this run, in call order
    suspended,             \* the handlers that wait at an await: their locals
    asked,                 \* message id of a question -> the note it was asked about
    ignored                \* whether an event of another sender has been dropped

awaitVars == <<suspended, asked, ignored>>
botVars   == <<note_queue, personal_mode, pending_questions>>
chatVars  == <<nextMsgId, reply>>
storeVars == <<people, projects, meetings, journal>>
runVars   == <<pc, queue_snapshot, messages, pq_before, task_notes, other_notes,
               task_links_by_source, pushed, existing, attempts>>
vars      == <<note_queue, personal_mode, pending_questions, nextMsgId, reply,
               assigned, people, projects, meetings, journal, pc, queue_snapshot, messages,
               pq_before, task_notes, other_notes, task_links_by_source,
               pushed, existing, attempts, suspended, asked, ignored>>

TextNote(t) ==
    [type |-> "text", content |-> t, caption |-> None, clarification |-> None]

\* content: the base64 text of the photo ("data" in the source)
ImageNote(cap) ==
    [type |-> "image", content |-> <<"d">>, caption |-> cap, clarification |-> None]

NoQuestions == [m \in {} |-> 0]

NoLinks == [s \in {} |-> <<>>]

\* The locals of cmd_process when no run is in progress
RunIdle ==
    /\ pc = "idle"
    /\ queue_snapshot = <<>>
    /\ messages = <<>>
    /\ pq_before = NoQuestions
    /\ task_notes = <<>>
    /\ other_notes = <<>>
    /\ task_links_by_source = NoLinks
    /\ pushed = <<>>
    /\ existing = None
    /\ attempts = <<>>

\* ---------------------------------------------------- intake and questions
\* The application handles one update at a time (Application.builder() leaves
\* concurrent_updates off), so a handler starts only when none is running.
Serialized == pc = "idle"

\* note_queue.append(note)
Enqueue(q, note) == Append(q, note)

NewIndex_count(q) == Len(q)

\* idx = len(note_queue) - 1
NewIndex(q) == Len(q) - 1

Pop_keeps(f, key) == f

\* pending_questions.pop(key)
Pop(f, key) == [m \in DOMAIN f \ {key} |-> f[m]]

\* pending_questions[key] = idx
Put(f, key, idx) == [m \in DOMAIN f \cup {key} |-> IF m = key THEN idx ELSE f[m]]

SetClarification_next(q, idx, text) ==
    [k \in 1 .. Len(q) |->
        IF k = ((idx + 1) % Len(q)) + 1 THEN [q[k] EXCEPT !.clarification = Some(text)]
        ELSE q[k]]

\* note_queue[idx]["clarification"] = text   (idx counts from 0)
SetClarification(q, idx, text) ==
    [q EXCEPT ![idx + 1].clarification = Some(text)]

\* check_if_needs_clarification is asked only for unprefixed text; it answers
\* (True, question) or (False, ""), the latter also when the call fails
NeedsQuestionOutcomes(t) ==
    IF extract_prefix(t)[1] = "" THEN BOOLEAN ELSE {FALSE}

\* The messages a reply is sent to: the pending questions and, for a message
\* that is none, the first message of the chat, which is the user's own (a
\* reply to any other message that is no pending question is handled alike)
ReplyTargets ==
    DOMAIN pending_questions \cup (IF nextMsgId > 0 THEN {0} ELSE {})

\* handle_text: r is None or Some(id of the message replied to), t the text
HandleText(r, t) ==
    /\ Serialized
    /\ nextMsgId + 2 <= MaxMsgId
    /\ r \in {None} \cup {Some(m) : m \in ReplyTargets}
    /\ nextMsgId' = nextMsgId + 2
    /\ IF r # None /\ r[1] \in DOMAIN pending_questions
       THEN LET idx == pending_questions[r[1]] IN
            /\ pending_questions' = Pop(pending_questions, r[1])
            /\ IF idx < Len(note_queue)
               THEN /\ note_queue' = SetClarification(note_queue, idx, t)
                    /\ reply' = [kind |-> "context_added"]
               ELSE /\ UNCHANGED note_queue
                    /\ reply' = [kind |-> "not_found"]
            /\ UNCHANGED assigned
       ELSE /\ Len(note_queue) < MaxQueue
            /\ LET q   == Enqueue(note_queue, TextNote(t))
                   idx == NewIndex(q)
               IN /\ note_queue' = q
                  /\ assigned' = Append(assigned, [idx |-> idx, note |-> TextNote(t)])
                  /\ \E needs_q \in NeedsQuestionOutcomes(t) :
                        IF needs_q
                        THEN /\ pending_questions' =
                                    Put(pending_questions, nextMsgId + 1, idx)
                             /\ reply' = [kind |-> "question"]
                        ELSE /\ UNCHANGED pending_questions
                             /\ reply' = [kind |-> "queued", total |-> Len(q)]
    /\ UNCHANGED <<personal_mode, storeVars, runVars>>
    /\ UNCHANGED awaitVars

\* handle_image: cap is the caption ("" if none).  The handler is taken from
\* the point where the photo has been downloaded: if get_file or the download
\* raises, it ends before it has changed or sent anything.
HandleImage(cap) ==
    /\ Serialized
    /\ nextMsgId + 2 <= MaxMsgId
    /\ Len(note_queue) < MaxQueue
    /\ nextMsgId' = nextMsgId + 2
    /\ LET q   == Enqueue(note_queue, ImageNote(cap))
           idx == NewIndex(q)
       IN /\ note_queue' = q
          /\ assigned' = Append(assigned, [idx |-> idx, note |-> ImageNote(cap)])
          /\ IF cap = <<>>
             THEN /\ pending_questions' = Put(pending_questions, nextMsgId + 1, idx)
                  /\ reply' = [kind |-> "image_question"]
             ELSE /\ UNCHANGED pending_questions
                  /\ reply' = [kind |-> "image_queued", total |-> Len(q)]
    /\ UNCHANGED <<personal_mode, storeVars, runVars>>
    /\ UNCHANGED awaitVars

\* ---------------------------------------------------------------- commands
\* A command that only answers: the incoming message and the answer
Answer(r) ==
    /\ Serialized
    /\ nextMsgId + 2 <= MaxMsgId
    /\ nextMsgId' = nextMsgId + 2
    /\ reply' = r

CmdStart ==
    /\ Answer([kind |-> "start", personal |-> personal_mode])
    /\ UNCHANGED <<botVars, assigned, storeVars, runVars>>
    /\ UNCHANGED awaitVars

CmdPersonal ==
    /\ Answer([kind |-> "personal"])
    /\ personal_mode' = TRUE
    /\ UNCHANGED <<note_queue, pending_questions, assigned, storeVars, runVars>>
    /\ UNCHANGED awaitVars

CmdWork ==
    /\ Answer([kind |-> "work"])
    /\ personal_mode' = FALSE
    /\ UNCHANGED <<note_queue, pending_questions, assigned, storeVars, runVars>>
    /\ UNCHANGED awaitVars

CmdMode ==
    /\ Answer([kind |-> "mode", personal |-> personal_mode])
    /\ UNCHANGED <<botVars, assigned, storeVars, runVars>>
    /\ UNCHANGED awaitVars

Clarified(q) == Cardinality({k \in 1 .. Len(q) : q[k].clarification # None})

CmdQueue ==
    /\ Answer(IF Len(note_queue) = 0
              THEN [kind |-> "queue_empty"]
              ELSE [kind |-> "queue", count |-> Len(note_queue),
                    clarified |-> Clarified(note_queue),
                    unanswered |-> Cardinality(DOMAIN pending_questions)])
    /\ UNCHANGED <<botVars, assigned, storeVars, runVars>>
    /\ UNCHANGED awaitVars

CmdClear_keepsQuestions ==
    /\ Answer([kind |-> "cleared"])
    /\ note_queue' = <<>>
    /\ assigned' = <<>>
    /\ UNCHANGED <<pending_questions, personal_mode, storeVars, runVars>>
    /\ UNCHANGED awaitVars

CmdClear ==
    /\ Answer([kind |-> "cleared"])
    /\ note_queue' = <<>>
    /\ pending_questions' = NoQuestions
    /\ assigned' = <<>>
    /\ UNCHANGED <<personal_mode, storeVars, runVars>>
    /\ UNCHANGED awaitVars

\* ---------------------------------------------------------- document store
\* A folder is the list of its files [name, content] in listing order.  The
\* content of an entity document is [fm, obs, edits, links]: the name its
\* front matter carries, the number of dated bullets, the number of edits made
\* by writers other than the bot, and the task links written into it.
MaxEdits == 1    \* edits other writers make to one document

\* The version token of a file is the hash of its content
Sha(content) == <<"sha", content>>

Folder(f) == IF f = "people" THEN people ELSE projects

HasFile(listing, name) == \E k \in 1 .. Len(listing) : listing[k].name = name

\* repo.create_file on a path that does not exist
RECURSIVE InsertFile(_, _)
InsertFile(listing, file) ==
    IF listing = <<>> THEN <<file>>
    ELSE IF NameBefore(file.name, Head(listing).name)
         THEN <<file>> \o listing
         ELSE <<Head(listing)>> \o InsertFile(Tail(listing), file)

\* repo.update_file: the store accepts it only with the token of the content
\* it holds
TokenMatches(listing, name, sha) ==
    \E k \in 1 .. Len(listing) :
        listing[k].name = name /\ Sha(listing[k].content) = sha

ReplaceContent(listing, name, content) ==
    [k \in 1 .. Len(listing) |->
        IF listing[k].name = name THEN [listing[k] EXCEPT !.content = content]
        ELSE listing[k]]

\* The content the store holds at a path <<folder, name>>
StoredAt(path) ==
    LET listing == Folder(path[1])
        k == CHOOSE k \in 1 .. Len(listing) : listing[k].name = path[2]
    IN listing[k].content

\* find_existing_file(folder, slug): the first listed file whose name contains
\* the slug, as (path, content, sha); None if there is none or the listing
\* raises GithubException
Matches(listing, slug) ==
    {k \in 1 .. Len(listing) : Contains(slug, listing[k].name)}

FirstOf(S) == CHOOSE k \in S : \A j \in S : k <= j

find_existing_file_last(f, listing, slug, listed) ==
    IF ~listed \/ Matches(listing, slug) = {} THEN None
    ELSE LET M    == Matches(listing, slug)
             file == listing[CHOOSE k \in M : \A j \in M : k >= j] IN
         Some([path |-> <<f, file.name>>, content |-> file.content,
               sha |-> Sha(file.content)])

find_existing_file(f, listing, slug, listed) ==
    IF ~listed \/ Matches(listing, slug) = {} THEN None
    ELSE LET file == listing[FirstOf(Matches(listing, slug))] IN
         Some([path |-> <<f, file.name>>, content |-> file.content,
               sha |-> Sha(file.content)])

\* ------------------------------------------------------------------ journal
\* The journal is <<>> (no file) or the header followed by one block per
\* write: the block of a processing session, the block of a /pending, or the
\* block of another writer of the repository.  The heading, the summary and
\* the statistics line of a block are left out.
JournalHeader == [kind |-> "header"]

OtherBlock == [kind |-> "other"]

PreviewMax == 150

ImageTag == "[Image] "

Ellipsis == "..."

\* update_journal: the preview of a raw note
SessionPreview(raw) ==
    IF raw.type = "text"
    THEN Truncate(raw.content, PreviewMax)
         \o (IF Len(raw.content) > PreviewMax THEN <<Ellipsis>> ELSE <<>>)
    ELSE <<ImageTag>> \o raw.caption

\* log_pending_to_journal: the preview of a raw note
PendingPreview(raw) ==
    IF raw.type = "text" THEN Truncate(raw.content, PreviewMax)
    ELSE <<ImageTag>> \o raw.caption

\* path.replace('.md', '')
RECURSIVE RemoveMd(_)
RemoveMd(s) ==
    IF Len(s) < Len(Md) THEN s
    ELSE IF SubSeq(s, 1, Len(Md)) = Md THEN RemoveMd(SubSeq(s, Len(Md) + 1, Len(s)))
    ELSE <<Head(s)>> \o RemoveMd(Tail(s))

\* [[folder/file|Title]]
obsidian_link(path, title) ==
    [target |-> <<path[1], RemoveMd(path[2])>>, label |-> title]

Related_all(pushed_notes, i) == pushed_notes

\* related = [n for n in pushed_notes if n.get("source_index") == i]
Related(pushed_notes, i) ==
    SelectSeq(pushed_notes, LAMBDA pn : pn.source_index = i)

\* One line "  -> emoji link tag" of a session block
JournalLine(pn) ==
    [emoji |-> pn.type, link |-> obsidian_link(pn.path, pn.title),
     updated |-> pn.updated]

\* The lines update_journal writes for raw note i of the snapshot
SessionNote(raw, i, pushed_notes) ==
    [preview |-> SessionPreview(raw),
     clarification |-> raw.clarification,
     links |-> [k \in 1 .. Len(Related(pushed_notes, i)) |->
                    JournalLine(Related(pushed_notes, i)[k])]]

\* The section update_journal builds
SessionBlock(snapshot, pushed_notes) ==
    [kind |-> "session",
     notes |-> [k \in 1 .. Len(snapshot) |->
                    SessionNote(snapshot[k], k - 1, pushed_notes)]]

PendingBlock_dropsLast(snapshot) ==
    [kind |-> "pending",
     previews |-> [k \in 1 .. Len(snapshot) - 1 |-> PendingPreview(snapshot[k])]]

\* The section log_pending_to_journal builds
PendingBlock(snapshot) ==
    [kind |-> "pending",
     previews |-> [k \in 1 .. Len(snapshot) |-> PendingPreview(snapshot[k])]]

\* How the calls of a journal write to the store may end: every call is
\* served; get_contents raises although there is a journal; another writer of
\* the repository adds a block to the journal after get_contents; the store
\* rejects the write calls
JournalOutcomes == {"served", "unread", "raced", "rejected"}

\* ... of which "unread" is told from "served" only when there is a journal
JournalOutcomesOf(j) == IF j = <<>> THEN JournalOutcomes \ {"unread"} ELSE JournalOutcomes

\* repo.get_contents(path) of the journal: None when it raises, which it does
\* when there is no journal
JournalRead(j, outcome) ==
    IF outcome # "unread" /\ j # <<>> THEN Some(j) ELSE None

\* What the store holds when the write call arrives
StoredJournal(j, outcome) ==
    IF outcome # "raced" THEN j
    ELSE IF j = <<>> THEN <<JournalHeader, OtherBlock>>
    ELSE Append(j, OtherBlock)

\* repo.update_file(content=current + section, sha=existing.sha) is accepted:
\* the token is that of the stored content
UpdateAccepted(current, stored, outcome) ==
    outcome # "rejected" /\ stored = current

CreateAccepted_overwrites(stored, outcome) == outcome # "rejected"

\* repo.create_file(content=header + section) of the except branch is
\* accepted: the store never creates a path that exists
CreateAccepted(stored, outcome) == outcome # "rejected" /\ stored = <<>>

\* update_journal / log_pending_to_journal returned instead of raising
JournalWritten(j, outcome) ==
    LET current == JournalRead(j, outcome)
        stored  == StoredJournal(j, outcome)
    IN \/ current # None /\ UpdateAccepted(current[1], stored, outcome)
       \/ CreateAccepted(stored, outcome)

\* update_journal / log_pending_to_journal from "try:" on: what the store
\* holds afterwards
JournalAfter(j, section, outcome) ==
    LET current == JournalRead(j, outcome)
        stored  == StoredJournal(j, outcome)
    IN IF current # None /\ UpdateAccepted(current[1], stored, outcome)
       THEN Append(current[1], section)
       ELSE IF CreateAccepted(stored, outcome)
       THEN <<JournalHeader, section>>
       ELSE stored

\* ----------------------------------------------------------------- pipeline
\* source_i = i % len(queue_snapshot) if queue_snapshot else 0
\* ------------------------------------------------------ structuring request
\* A part of the content of the request: [kind, n, text].  kind is the prompt
\* of the mode, the marker "--- Note n ---", the text of a note, the
\* "Caption: " line of an image, the image itself, or the "[Clarification]: "
\* line.
Part(kind, n, text) == [kind |-> kind, n |-> n, text |-> text]

\* PERSONAL_PROMPT if is_personal else WORK_PROMPT
Prompt(is_personal) ==
    Part(IF is_personal THEN "personal_prompt" ELSE "work_prompt", 0, <<>>)

\* The body of the loop of build_processing_messages for queue[i] (i from 0)
NoteParts(i, note) ==
    <<Part("marker", i + 1, <<>>)>>
    \o (IF note.type = "text"
        THEN <<Part("text", 0, note.content)>>
        ELSE (IF note.caption # <<>>
              THEN <<Part("caption", 0, note.caption)>> ELSE <<>>)
             \o <<Part("image", 0, <<>>)>>)
    \o (IF note.clarification # None
        THEN <<Part("clarification", 0, note.clarification[1])>> ELSE <<>>)

RECURSIVE PartsFrom(_, _)
PartsFrom(queue, i) ==
    IF i >= Len(queue) THEN <<>>
    ELSE NoteParts(i, queue[i + 1]) \o PartsFrom(queue, i + 1)

RECURSIVE PartsOfDistinctFrom(_, _)
PartsOfDistinctFrom(queue, i) ==
    IF i >= Len(queue) THEN <<>>
    ELSE (IF \E j \in 1 .. i : queue[j].type = queue[i + 1].type
                                 /\ queue[j] = queue[i + 1] THEN <<>>
          ELSE NoteParts(i, queue[i + 1]))
         \o PartsOfDistinctFrom(queue, i + 1)

build_processing_messages_dedup(queue, is_personal) ==
    <<Prompt(is_personal)>> \o PartsOfDistinctFrom(queue, 0)

build_processing_messages(queue, is_personal) ==
    <<Prompt(is_personal)>> \o PartsFrom(queue, 0)

SourceIndex(i, n) == IF n > 0 THEN i % n ELSE 0

\* enumerate(note_blocks) with the source index of each record
Entries(blocks, n) ==
    [k \in 1 .. Len(blocks) |->
        [i |-> k - 1, block |-> blocks[k], source_i |-> SourceIndex(k - 1, n)]]

IsTask(e) == e.block.type = "tasks"

IsOther(e) == e.block.type # "tasks"

\* task_notes and other_notes of process_notes_pipeline
TaskNotes(blocks, n) == SelectSeq(Entries(blocks, n), IsTask)

OtherNotes_unsplit(blocks, n) == Entries(blocks, n)

OtherNotes(blocks, n) == SelectSeq(Entries(blocks, n), IsOther)

NoteId == <<"0">>

\* The ids a meetings record may carry, from its front matter or else from
\* now_id(): the minute of this run, or the minute of the earlier meeting
NoteIds == { <<"0">>, <<"9">> }

\* push_meeting_note: "meetings/<id>-<slug of the meeting name>.md"
MeetingPath(id, name) == <<"meetings", id \o <<"-">> \o make_slug(name) \o Md>>

\* The document push_meeting_note writes: the record as the response gave it
MeetingDoc(e, id) == [title |-> e.block.name, id |-> id, i |-> e.i]

\* push_regular_note / push_meeting_note: "<folder>/<id>-<slug>.md"
NotePath(folder, name) == <<folder, NoteId \o <<"-">> \o make_slug(name) \o Md>>

\* path of a new entity document: "<folder>/<slug>.md"
EntityPath(folder, name) == <<folder, make_slug(name) \o Md>>

Pushed(path, e, updated) ==
    [path |-> path, title |-> e.block.name, type |-> e.block.type,
     source_index |-> e.source_i, updated |-> updated]

Attempt(e, op, path, ok, why, links) ==
    [i |-> e.i, type |-> e.block.type, source_i |-> e.source_i, op |-> op,
     path |-> path, ok |-> ok, why |-> why, links |-> links]

RECURSIVE AllLinks(_, _)
AllLinks(links, keys) ==
    IF keys = {} THEN <<>>
    ELSE LET s == CHOOSE s \in keys : \A o \in keys : s <= o
         IN links[s] \o AllLinks(links, keys \ {s})

LinksOf_all(links, source_i) == AllLinks(links, DOMAIN links)

\* task_links_by_source.get(source_i, [])
LinksOf(links, source_i) ==
    IF source_i \in DOMAIN links THEN links[source_i] ELSE <<>>

\* task_links_by_source.setdefault(source_i, []).append(link)
AddLink(links, source_i, link) ==
    [s \in DOMAIN links \cup {source_i} |->
        IF s = source_i THEN Append(LinksOf(links, source_i), link) ELSE links[s]]

ResetRun ==
    /\ pc' = "idle"
    /\ queue_snapshot' = <<>>
    /\ messages' = <<>>
    /\ pq_before' = NoQuestions
    /\ task_notes' = <<>>
    /\ other_notes' = <<>>
    /\ task_links_by_source' = NoLinks
    /\ pushed' = <<>>
    /\ existing' = None
    /\ attempts' = <<>>

\* cmd_process on an empty queue
CmdProcessEmpty ==
    /\ note_queue = <<>>
    /\ Answer([kind |-> "nothing_to_process"])
    /\ UNCHANGED <<botVars, assigned, storeVars, runVars>>
    /\ UNCHANGED awaitVars

ProcessStart_clearsQueue(resp) ==
    /\ Serialized
    /\ note_queue # <<>>
    /\ nextMsgId + 4 <= MaxMsgId
    /\ LET warned == IF DOMAIN pending_questions # {} THEN 1 ELSE 0
           sent   == nextMsgId + warned + 2
       IN IF resp = None
          THEN /\ nextMsgId' = sent + 1
               /\ reply' = [kind |-> "error", e |-> "claude"]
               /\ note_queue' = <<>>
               /\ pending_questions' = NoQuestions
               /\ UNCHANGED <<personal_mode, runVars>>
          ELSE /\ nextMsgId' = sent
               /\ reply' = [kind |-> "processing", count |-> Len(note_queue)]
               /\ pc' = "push"
               /\ queue_snapshot' = note_queue
               /\ messages' = build_processing_messages(note_queue, personal_mode)
               /\ pq_before' = pending_questions
               /\ task_notes' = TaskNotes(resp[1], Len(note_queue))
               /\ other_notes' = OtherNotes(resp[1], Len(note_queue))
               /\ UNCHANGED <<botVars, task_links_by_source, pushed, existing, attempts>>
    /\ UNCHANGED <<assigned, storeVars>>
    /\ UNCHANGED awaitVars

\* cmd_process up to the split of the response into task_notes and
\* other_notes.  resp: None if the structuring call raises, else the records
\* of the response.  The messages are the command, the warning about
\* unanswered questions, "Processing ..." and, if the call raises, the error,
\* which carries the text of the exception.
ProcessStart(resp) ==
    /\ Serialized
    /\ note_queue # <<>>
    /\ nextMsgId + 4 <= MaxMsgId
    /\ LET warned == IF DOMAIN pending_questions # {} THEN 1 ELSE 0
           sent   == nextMsgId + warned + 2
       IN IF resp = None
          THEN /\ nextMsgId' = sent + 1
               /\ reply' = [kind |-> "error", e |-> "claude"]
               /\ UNCHANGED runVars
          ELSE /\ nextMsgId' = sent
               /\ reply' = [kind |-> "processing", count |-> Len(note_queue)]
               /\ pc' = "push"
               /\ queue_snapshot' = note_queue
               /\ messages' = build_processing_messages(note_queue, personal_mode)
               /\ pq_before' = pending_questions
               /\ task_notes' = TaskNotes(resp[1], Len(note_queue))
               /\ other_notes' = OtherNotes(resp[1], Len(note_queue))
               /\ UNCHANGED <<task_links_by_source, pushed, existing, attempts>>
    /\ UNCHANGED <<botVars, assigned, storeVars>>
    /\ UNCHANGED awaitVars

PushTask_aborts(created) ==
    /\ pc = "push"
    /\ task_notes # <<>>
    /\ LET e    == Head(task_notes)
           path == NotePath(e.block.type, e.block.name)
       IN /\ attempts' = Append(attempts, Attempt(e, "create", path, created, "error", <<>>))
          /\ IF created
             THEN /\ task_links_by_source' =
                        AddLink(task_links_by_source, e.source_i,
                                obsidian_link(path, e.block.name))
                  /\ pushed' = Append(pushed, Pushed(path, e, FALSE))
                  /\ task_notes' = Tail(task_notes)
                  /\ UNCHANGED other_notes
             ELSE /\ task_notes' = <<>>
                  /\ other_notes' = <<>>
                  /\ UNCHANGED <<task_links_by_source, pushed>>
    /\ UNCHANGED <<botVars, chatVars, assigned, storeVars, pc, queue_snapshot, messages,
                   pq_before, existing>>
    /\ UNCHANGED awaitVars

\* One iteration of "for i, block, source_i in task_notes"; created: whether
\* create_file returned
PushTask(created) ==
    /\ pc = "push"
    /\ task_notes # <<>>
    /\ LET e    == Head(task_notes)
           path == NotePath(e.block.type, e.block.name)
       IN /\ attempts' = Append(attempts, Attempt(e, "create", path, created, "error", <<>>))
          /\ IF created
             THEN /\ task_links_by_source' =
                        AddLink(task_links_by_source, e.source_i,
                                obsidian_link(path, e.block.name))
                  /\ pushed' = Append(pushed, Pushed(path, e, FALSE))
             ELSE UNCHANGED <<task_links_by_source, pushed>>
    /\ task_notes' = Tail(task_notes)
    /\ UNCHANGED <<botVars, chatVars, assigned, storeVars, pc, queue_snapshot, messages,
                   pq_before, other_notes, existing>>
    /\ UNCHANGED awaitVars

OthersTurn(types) ==
    /\ pc = "push"
    /\ task_notes = <<>>
    /\ other_notes # <<>>
    /\ Head(other_notes).block.type \in types

\* Another writer of the repository edits the document an upsert has read and
\* not yet written back.  (An edit made at any other moment only changes what
\* the bot reads next.)
ExternalEdit ==
    /\ pc = "merge"
    /\ LET path   == existing[1].path
           stored == StoredAt(path)
           edited == ReplaceContent(Folder(path[1]), path[2],
                                    [stored EXCEPT !.edits = @ + 1])
       IN /\ stored.edits < MaxEdits
          /\ IF path[1] = "people"
             THEN people' = edited /\ UNCHANGED projects
             ELSE projects' = edited /\ UNCHANGED people
    /\ UNCHANGED <<botVars, chatVars, assigned, meetings, journal, runVars>>
    /\ UNCHANGED awaitVars

\* The new profile upsert_people_note / upsert_project_note creates
NewEntity(name, tlinks) ==
    [fm |-> name, obs |-> 1, edits |-> 0, links |-> tlinks]

\* upsert_people_note / upsert_project_note up to the end of the create
\* branch.  listed: the folder listing returned; created: the store accepted
\* create_file (it never does for a path that exists).
UpsertFind(listed, created) ==
    /\ OthersTurn({"people", "projects"})
    /\ LET e      == Head(other_notes)
           f      == e.block.type
           slug   == make_slug(e.block.name)
           found  == find_existing_file(f, Folder(f), slug, listed)
           path   == EntityPath(f, e.block.name)
           tlinks == LinksOf(task_links_by_source, e.source_i)
           ok     == created /\ ~HasFile(Folder(f), path[2])
           after  == IF ok
                     THEN InsertFile(Folder(f),
                                     [name |-> path[2],
                                      content |-> NewEntity(e.block.name, tlinks)])
                     ELSE Folder(f)
       IN IF found # None
          THEN /\ existing' = found
               /\ pc' = "merge"
               /\ UNCHANGED <<people, projects, other_notes, pushed, attempts>>
          ELSE /\ attempts' = Append(attempts, Attempt(e, "create", path, ok, "error", tlinks))
               /\ pushed' = IF ok THEN Append(pushed, Pushed(path, e, FALSE)) ELSE pushed
               /\ people' = IF f = "people" THEN after ELSE people
               /\ projects' = IF f = "projects" THEN after ELSE projects
               /\ other_notes' = Tail(other_notes)
               /\ UNCHANGED <<existing, pc>>
    /\ UNCHANGED <<botVars, chatVars, assigned, meetings, journal, queue_snapshot, messages, pq_before,
                   task_notes, task_links_by_source>>
    /\ UNCHANGED awaitVars

\* How the merge call may end: it raises, it returns the document with one
\* more bullet, or it returns a document whose front matter it rewrote
MergeOutcomes == {"raises", "merged", "rewritten"}

MergeOutput(content, tlinks, outcome) ==
    IF outcome = "merged"
    THEN [content EXCEPT !.obs = @ + 1, !.links = @ \o tlinks]
    ELSE [content EXCEPT !.fm = <<>>, !.obs = @ + 1, !.links = @ \o tlinks]

UpdateToken_reread(found, listing) ==
    LET k == CHOOSE k \in 1 .. Len(listing) : listing[k].name = found.path[2]
    IN Sha(listing[k].content)

\* The token update_file is called with
UpdateToken(found, listing) == found.sha

\* The update branch of the upsert: the merge call and update_file.  outcome:
\* how the merge call ends; accepted: the store had no other reason than the
\* token to reject the update (there is no update when the merge call raises).
UpsertMerge(outcome, accepted) ==
    /\ pc = "merge"
    /\ outcome = "raises" => accepted
    /\ LET e     == Head(other_notes)
           f     == e.block.type
           found == existing[1]
           name  == found.path[2]
           fresh == TokenMatches(Folder(f), name, UpdateToken(found, Folder(f)))
           ok    == accepted /\ fresh
           tlinks == LinksOf(task_links_by_source, e.source_i)
           text  == MergeOutput(found.content, tlinks, outcome)
           after == IF ok THEN ReplaceContent(Folder(f), name, text)
                    ELSE Folder(f)
       IN /\ IF outcome = "raises"
             THEN UNCHANGED <<people, projects, pushed, attempts>>
             ELSE /\ attempts' =
                        Append(attempts,
                               Attempt(e, "update", found.path, ok,
                                       IF fresh THEN "error" ELSE "conflict",
                                       tlinks))
                  /\ pushed' = IF ok THEN Append(pushed, Pushed(found.path, e, TRUE))
                               ELSE pushed
                  /\ people' = IF f = "people" THEN after ELSE people
                  /\ projects' = IF f = "projects" THEN after ELSE projects
    /\ other_notes' = Tail(other_notes)
    /\ existing' = None
    /\ pc' = "push"
    /\ UNCHANGED <<botVars, chatVars, assigned, meetings, journal, queue_snapshot, messages, pq_before,
                   task_notes, task_links_by_source>>
    /\ UNCHANGED awaitVars

\* A record written by push_regular_note; created: whether create_file
\* returned
PushNew(created) ==
    LET e    == Head(other_notes)
        path == NotePath(e.block.type, e.block.name)
    IN /\ attempts' = Append(attempts, Attempt(e, "create", path, created, "error", <<>>))
       /\ pushed' = IF created THEN Append(pushed, Pushed(path, e, FALSE)) ELSE pushed
       /\ other_notes' = Tail(other_notes)
       /\ UNCHANGED <<botVars, chatVars, assigned, storeVars, pc, queue_snapshot, messages,
                      pq_before, task_notes, task_links_by_source, existing>>

\* A meetings record: push_meeting_note.  id: the id of the front matter of
\* the record, or now_id(); created: the store had no other reason than the
\* path to reject create_file (it never accepts a path that exists).
PushMeeting(id, created) ==
    /\ OthersTurn({"meetings"})
    /\ LET e    == Head(other_notes)
           path == MeetingPath(id, e.block.name)
           ok   == created /\ ~HasFile(meetings, path[2])
       IN /\ attempts' = Append(attempts, Attempt(e, "create", path, ok, "error", <<>>))
          /\ pushed' = IF ok THEN Append(pushed, Pushed(path, e, FALSE)) ELSE pushed
          /\ meetings' = IF ok
                         THEN InsertFile(meetings,
                                         [name |-> path[2], content |-> MeetingDoc(e, id)])
                         ELSE meetings
    /\ other_notes' = Tail(other_notes)
    /\ UNCHANGED <<botVars, chatVars, assigned, people, projects, journal, pc,
                   queue_snapshot, messages, pq_before, task_notes,
                   task_links_by_source, existing>>
    /\ UNCHANGED awaitVars

PushRegular(created) ==
    /\ OthersTurn({b.type : b \in Blocks} \ {"people", "projects", "meetings"})
    /\ PushNew(created)
    /\ UNCHANGED awaitVars

PipelineDone == pc = "push" /\ task_notes = <<>> /\ other_notes = <<>>

ProcessNoNotes_clears ==
    /\ PipelineDone
    /\ pushed = <<>>
    /\ nextMsgId' = nextMsgId + 1
    /\ reply' = [kind |-> "no_notes"]
    /\ note_queue' = <<>>
    /\ pending_questions' = NoQuestions
    /\ assigned' = <<>>
    /\ ResetRun
    /\ UNCHANGED <<personal_mode, storeVars>>
    /\ UNCHANGED awaitVars

\* cmd_process, "if not pushed": the answer and the return
ProcessNoNotes ==
    /\ PipelineDone
    /\ pushed = <<>>
    /\ nextMsgId' = nextMsgId + 1
    /\ reply' = [kind |-> "no_notes"]
    /\ ResetRun
    /\ UNCHANGED <<botVars, assigned, storeVars>>
    /\ UNCHANGED awaitVars

ProcessFinish_keepsQueue(outcome) ==
    /\ PipelineDone
    /\ pushed # <<>>
    /\ outcome \in JournalOutcomesOf(journal)
    /\ journal' = JournalAfter(journal, SessionBlock(queue_snapshot, pushed),
                               outcome)
    /\ IF JournalWritten(journal, outcome)
       THEN /\ note_queue' = <<>>
            /\ pending_questions' = NoQuestions
            /\ assigned' = <<>>
       ELSE UNCHANGED <<note_queue, pending_questions, assigned>>
    /\ nextMsgId' = nextMsgId + 1
    /\ reply' = [kind |-> "done", count |-> Len(pushed),
                 journal_ok |-> JournalWritten(journal, outcome)]
    /\ ResetRun
    /\ UNCHANGED <<personal_mode, people, projects, meetings>>
    /\ UNCHANGED awaitVars

\* cmd_process from the summary to the end: update_journal, the clearing of
\* the state and the final answer.  outcome: how the calls of update_journal
\* to the store end (get_daily_summary falls back to a fixed
\* text when its call raises).
ProcessFinish(outcome) ==
    /\ PipelineDone
    /\ pushed # <<>>
    /\ outcome \in JournalOutcomesOf(journal)
    /\ journal' = JournalAfter(journal, SessionBlock(queue_snapshot, pushed),
                               outcome)
    /\ note_queue' = <<>>
    /\ pending_questions' = NoQuestions
    /\ assigned' = <<>>
    /\ nextMsgId' = nextMsgId + 1
    /\ reply' = [kind |-> "done", count |-> Len(pushed),
                 journal_ok |-> JournalWritten(journal, outcome)]
    /\ ResetRun
    /\ UNCHANGED <<personal_mode, people, projects, meetings>>
    /\ UNCHANGED awaitVars

\* cmd_pending on an empty queue
CmdPendingEmpty ==
    /\ note_queue = <<>>
    /\ Answer([kind |-> "nothing_pending"])
    /\ UNCHANGED <<botVars, assigned, storeVars, runVars>>
    /\ UNCHANGED awaitVars

CmdPending_keepsQuestions(outcome) ==
    /\ note_queue # <<>>
    /\ outcome \in JournalOutcomesOf(journal)
    /\ journal' = JournalAfter(journal, PendingBlock(note_queue), outcome)
    /\ IF JournalWritten(journal, outcome)
       THEN /\ Answer([kind |-> "saved", count |-> Len(note_queue)])
            /\ note_queue' = <<>>
            /\ assigned' = <<>>
            /\ UNCHANGED pending_questions
       ELSE /\ Answer([kind |-> "error", e |-> "github"])
            /\ UNCHANGED <<note_queue, pending_questions, assigned>>
    /\ UNCHANGED <<personal_mode, people, projects, meetings, runVars>>
    /\ UNCHANGED awaitVars

\* cmd_pending; outcome: how the calls of log_pending_to_journal
\* to the store end
CmdPending(outcome) ==
    /\ note_queue # <<>>
    /\ outcome \in JournalOutcomesOf(journal)
    /\ journal' = JournalAfter(journal, PendingBlock(note_queue), outcome)
    /\ IF JournalWritten(journal, outcome)
       THEN /\ Answer([kind |-> "saved", count |-> Len(note_queue)])
            /\ note_queue' = <<>>
            /\ pending_questions' = NoQuestions
            /\ assigned' = <<>>
       ELSE /\ Answer([kind |-> "error", e |-> "github"])
            /\ UNCHANGED <<note_queue, pending_questions, assigned>>
    /\ UNCHANGED <<personal_mode, people, projects, meetings, runVars>>
    /\ UNCHANGED awaitVars

\* The bot starts with an empty queue, in work mode, on a repository in which
\* an earlier session created the profile of one person.
EarlierProfile ==
    << [name |-> make_slug(<<"A", "l">>) \o Md,
        content |-> NewEntity(<<"A", "l">>, <<>>)] >>

\* ... and the note of one meeting, written in an earlier minute
EarlierMeeting ==
    << [name |-> MeetingPath(<<"9">>, <<"m">>)[2],
        content |-> [title |-> <<"m">>, id |-> <<"9">>, i |-> 0]] >>

Init ==
    /\ note_queue = <<>>
    /\ personal_mode = FALSE
    /\ pending_questions = NoQuestions
    /\ nextMsgId = 0
    /\ reply = [kind |-> "none"]
    /\ assigned = <<>>
    /\ people = EarlierProfile
    /\ projects = <<>>
    /\ meetings = EarlierMeeting
    /\ journal = <<>>
    /\ RunIdle
    /\ suspended = {}
    /\ asked = NoQuestions
    /\ ignored = FALSE

Next ==
    \/ \E r \in {None} \cup {Some(m) : m \in MsgIds}, t \in Texts : HandleText(r, t)
    \/ \E cap \in Captions : HandleImage(cap)
    \/ CmdStart
    \/ CmdPersonal
    \/ CmdWork
    \/ CmdMode
    \/ CmdQueue
    \/ CmdClear
    \/ CmdPendingEmpty
    \/ \E outcome \in JournalOutcomes : CmdPending(outcome)
    \/ CmdProcessEmpty
    \/ \E resp \in {None} \cup {Some(b) : b \in BlockSeqs} : ProcessStart(resp)
    \/ \E created \in BOOLEAN : PushTask(created)
    \/ \E listed \in BOOLEAN, created \in BOOLEAN : UpsertFind(listed, created)
    \/ \E outcome \in MergeOutcomes, accepted \in BOOLEAN :
            UpsertMerge(outcome, accepted)
    \/ \E id \in NoteIds, created \in BOOLEAN : PushMeeting(id, created)
    \/ \E created \in BOOLEAN : PushRegular(created)
    \/ ProcessNoNotes
    \/ \E outcome \in JournalOutcomes : ProcessFinish(outcome)
    \/ ExternalEdit

Spec == Init /\ [][Next]_vars

\* ------------------------------------------- dispatch and awaits of handlers
\* The handlers are coroutines: a handler gives the event loop to the other
\* handlers only where it awaits a call to Telegram (reply_text).  The calls
\* to the generative service and to the store are synchronous, and so is
\* "await check_if_needs_clarification(...)", whose body never awaits.
Users == {"owner", "stranger"}

ALLOWED_USER_ID == "owner"

is_authorized_anyone(user) == TRUE

\* update.effective_user.id == ALLOWED_USER_ID
is_authorized(user) == user = ALLOWED_USER_ID

\* The responses of the structuring call taken here: the call raises, no
\* record, one record of a regular note
AwaitResponses == {None, Some(<<>>), Some(<<[type |-> "fleeting", name |-> <<"f">>]>>)}

\* app.add_handler(...): the handler an update is given to
HandlerNames ==
    {"start", "personal", "work", "mode", "queue", "clear", "pending",
     "process", "text", "image"}

\* The handler h run from its first statement after the authorization check
\* to its end
Dispatch(h) ==
    \/ h = "start" /\ CmdStart
    \/ h = "personal" /\ CmdPersonal
    \/ h = "work" /\ CmdWork
    \/ h = "mode" /\ CmdMode
    \/ h = "queue" /\ CmdQueue
    \/ h = "clear" /\ CmdClear
    \/ h = "pending" /\ (CmdPendingEmpty \/ \E outcome \in JournalOutcomes : CmdPending(outcome))
    \/ h = "process" /\ (CmdProcessEmpty \/ \E resp \in AwaitResponses : ProcessStart(resp))
    \/ h = "text" /\ \E r \in {None} \cup {Some(m) : m \in MsgIds}, t \in Texts : HandleText(r, t)
    \/ h = "image" /\ \E cap \in Captions : HandleImage(cap)

\* An update of a sender reaches one of the handlers: each begins with "if not
\* is_authorized(update): return"
Event(user) ==
    IF is_authorized(user)
    THEN \E h \in HandlerNames : Dispatch(h)
    ELSE /\ ignored' = TRUE
         /\ UNCHANGED <<botVars, chatVars, assigned, storeVars, runVars, suspended, asked>>

EventLoopFree_always == TRUE

\* No handler is in a synchronous part: cmd_process from the snapshot of the
\* queue to the two clears awaits nothing
EventLoopFree == pc = "idle"

\* The locals of a handler that waits for its question to be sent
AskFrame(msg, idx, note) == [h |-> "ask", msg |-> msg, idx |-> idx, note |-> note]

\* The locals of cmd_process while it waits for a message to be sent
ProcessFrame(msg, at, count) == [h |-> "process", msg |-> msg, at |-> at, count |-> count]

\* handle_text / handle_image of a note that gets a question, up to
\* "sent = await ...reply_text(...)"
AwaitAsk(note) ==
    /\ EventLoopFree
    /\ nextMsgId + 1 <= MaxMsgId
    /\ Len(note_queue) < MaxQueue
    /\ nextMsgId' = nextMsgId + 1
    /\ LET q   == Enqueue(note_queue, note)
           idx == NewIndex(q)
       IN /\ note_queue' = q
          /\ assigned' = Append(assigned, [idx |-> idx, note |-> note])
          /\ suspended' = suspended \cup {AskFrame(nextMsgId, idx, note)}
    /\ UNCHANGED <<personal_mode, pending_questions, reply, storeVars, runVars,
                   asked, ignored>>

\* handle_text of a text without prefix for which the check asks a question
AwaitTextAsk(t) ==
    /\ TRUE \in NeedsQuestionOutcomes(t)
    /\ AwaitAsk(TextNote(t))

\* handle_image of an image without caption
AwaitImageAsk ==
    /\ <<>> \in Captions
    /\ AwaitAsk(ImageNote(<<>>))

\* ... from the return of reply_text on: pending_questions[sent.message_id] = idx
AwaitRegister ==
    /\ EventLoopFree
    /\ nextMsgId + 1 <= MaxMsgId
    /\ \E f \in suspended :
          /\ f.h = "ask"
          /\ pending_questions' = Put(pending_questions, nextMsgId, f.idx)
          /\ asked' = Put(asked, nextMsgId, f.note)
          /\ reply' = [kind |-> IF f.note.type = "text" THEN "question"
                                ELSE "image_question"]
          /\ suspended' = suspended \ {f}
    /\ nextMsgId' = nextMsgId + 1
    /\ UNCHANGED <<note_queue, personal_mode, assigned, storeVars, runVars, ignored>>

\* cmd_process on a queue that is not empty, up to its first await: that of
\* the warning if there are pending questions, else that of "Processing ..."
AwaitProcessBegin ==
    /\ EventLoopFree
    /\ note_queue # <<>>
    /\ nextMsgId + 2 <= MaxMsgId
    /\ nextMsgId' = nextMsgId + 2
    /\ IF DOMAIN pending_questions # {}
       THEN /\ reply' = [kind |-> "warning", count |-> Cardinality(DOMAIN pending_questions)]
            /\ suspended' = suspended \cup {ProcessFrame(nextMsgId, "warning", 0)}
       ELSE /\ reply' = [kind |-> "processing", count |-> Len(note_queue)]
            /\ suspended' = suspended \cup
                    {ProcessFrame(nextMsgId, "processing", Len(note_queue))}
    /\ UNCHANGED <<botVars, assigned, storeVars, runVars, asked, ignored>>

\* ... from the return of the warning to the await of "Processing ...":
\* count = len(note_queue)
AwaitProcessWarned ==
    /\ EventLoopFree
    /\ nextMsgId + 1 <= MaxMsgId
    /\ nextMsgId' = nextMsgId + 1
    /\ \E f \in suspended :
          /\ f.h = "process" /\ f.at = "warning"
          /\ reply' = [kind |-> "processing", count |-> Len(note_queue)]
          /\ suspended' = (suspended \ {f}) \cup
                    {ProcessFrame(f.msg, "processing", Len(note_queue))}
    /\ UNCHANGED <<botVars, assigned, storeVars, runVars, asked, ignored>>

\* ... from the return of "Processing ..." on: the snapshot of the queue and
\* the structuring call.  The records are then written by the steps of the
\* pipeline, during which no other handler runs.
AwaitProcessRun(resp) ==
    /\ EventLoopFree
    /\ nextMsgId + 1 <= MaxMsgId
    /\ \E f \in suspended :
          /\ f.h = "process" /\ f.at = "processing"
          /\ suspended' = suspended \ {f}
    /\ IF resp = None
       THEN /\ nextMsgId' = nextMsgId + 1
            /\ reply' = [kind |-> "error", e |-> "claude"]
            /\ UNCHANGED runVars
       ELSE /\ pc' = "push"
            /\ queue_snapshot' = note_queue
            /\ messages' = build_processing_messages(note_queue, personal_mode)
            /\ pq_before' = pending_questions
            /\ task_notes' = TaskNotes(resp[1], Len(note_queue))
            /\ other_notes' = OtherNotes(resp[1], Len(note_queue))
            /\ UNCHANGED <<chatVars, task_links_by_source, pushed, existing, attempts>>
    /\ UNCHANGED <<botVars, assigned, storeVars, asked, ignored>>

\* The handlers under concurrent dispatch: an update starts its handler while
\* other handlers wait at an await.  The allowed user sends texts, images
\* without caption, /clear, /pending and /process; other senders send
\* anything.
AwaitNext ==
    \/ \E user \in Users \ {ALLOWED_USER_ID} : Event(user)
    \/ \E r \in {None} \cup {Some(m) : m \in MsgIds}, t \in Texts : HandleText(r, t)
    \/ CmdClear
    \/ \E outcome \in JournalOutcomes : CmdPending(outcome)
    \/ \E t \in Texts : AwaitTextAsk(t)
    \/ AwaitImageAsk
    \/ AwaitRegister
    \/ AwaitProcessBegin
    \/ AwaitProcessWarned
    \/ \E resp \in AwaitResponses : AwaitProcessRun(resp)
    \/ \E created \in BOOLEAN : PushRegular(created)
    \/ ProcessNoNotes
    \/ \E outcome \in JournalOutcomes : ProcessFinish(outcome)

SpecAwait == Init /\ [][AwaitNext]_vars

\* ------------------------------------------------------------------ claims
EntityTypes == {"people", "projects"}

\* C1: the intakes since the queue was last emptied are as many as the notes of
\* the queue, the k-th of them computed index k-1, and its note is the one the
\* queue holds at that index (whatever its clarification has become).
SameNote(a, b) ==
    a.type = b.type /\ a.content = b.content /\ a.caption = b.caption

IndicesInArrivalOrder ==
    /\ Len(assigned) = Len(note_queue)
    /\ \A k \in 1 .. Len(assigned) :
          /\ assigned[k].idx = k - 1
          /\ SameNote(note_queue[assigned[k].idx + 1], assigned[k].note)

\* Two notes taken in, the first of them clarified, in personal mode
C1Witness ==
    /\ Len(assigned) = 2
    /\ personal_mode
    /\ note_queue[1].clarification # None
    /\ ~SameNote(note_queue[1], note_queue[2])

\* C2: a text that replies to an outstanding question whose index is within
\* the queue removes that entry of the map and no other, sets the text as the
\* clarification of the note at that index, leaves every other note as it
\* was, and adds no note.
AnswerClarifiesItsNote ==
    [][\A m \in MsgIds, t \in Texts :
          ( /\ m \in DOMAIN pending_questions
            /\ pending_questions[m] < Len(note_queue)
            /\ HandleText(Some(m), t) )
          => /\ DOMAIN pending_questions' = DOMAIN pending_questions \ {m}
             /\ \A o \in DOMAIN pending_questions' :
                    pending_questions'[o] = pending_questions[o]
             /\ Len(note_queue') = Len(note_queue)
             /\ \A k \in 1 .. Len(note_queue) :
                    note_queue'[k] =
                        IF k = pending_questions[m] + 1
                        THEN [note_queue[k] EXCEPT !.clarification = Some(t)]
                        ELSE note_queue[k]
    ]_vars

\* The second of two notes has been clarified, the first has not
C2Witness ==
    /\ reply.kind = "context_added"
    /\ Len(note_queue) = 2
    /\ note_queue[1].clarification = None
    /\ note_queue[2].clarification # None

\* C3: a text that replies to a message that is no outstanding question is
\* answered with the failure and leaves the queue as it was.
UnknownAnswerLeavesQueue ==
    [][\A m \in MsgIds, t \in Texts :
          ( /\ m \notin DOMAIN pending_questions
            /\ HandleText(Some(m), t) )
          => /\ note_queue' = note_queue
             /\ reply'.kind = "not_found"
    ]_vars

\* C4: when the bot has answered /clear, the queue and the map of pending
\* questions are empty.
ClearEmptiesBoth ==
    reply.kind = "cleared"
        => note_queue = <<>> /\ pending_questions = NoQuestions

\* /clear handled as the fourth update of the chat
C4Witness ==
    /\ reply.kind = "cleared"
    /\ nextMsgId = MaxMsgId
    /\ note_queue = <<>>
    /\ DOMAIN pending_questions = {}

\* C5: in the write calls of a run, no call for a tasks record comes after a
\* call for a people, projects or meetings record.
TasksWrittenFirst ==
    \A a, b \in 1 .. Len(attempts) :
        (a < b /\ attempts[b].type = "tasks")
            => attempts[a].type \notin {"people", "projects", "meetings"}

\* The response named a people record first and a tasks record second; the
\* tasks record was written first
C5Witness ==
    /\ Len(attempts) = 2
    /\ attempts[1].type = "tasks" /\ attempts[1].i = 1
    /\ attempts[2].type = "people" /\ attempts[2].i = 0

\* C6 --------------------------------------------------------------------
UniqueNames(listing) ==
    \A j, k \in 1 .. Len(listing) :
        listing[j].name = listing[k].name => j = k

\* No folder holds two documents for one normalized name
OneDocumentPerName == UniqueNames(people) /\ UniqueNames(projects)

UpsertLookup ==
    \A listed, created \in BOOLEAN :
        UpsertFind(listed, created) =>
            LET e    == Head(other_notes)
                f    == e.block.type
                slug == make_slug(e.block.name)
                M    == Matches(Folder(f), slug)
            IN /\ (listed /\ M # {}) =>
                     /\ pc' = "merge"
                     /\ existing' # None
                     /\ existing'[1].path = <<f, Folder(f)[FirstOf(M)].name>>
                     /\ existing'[1].content = Folder(f)[FirstOf(M)].content
                     /\ people' = people /\ projects' = projects
               /\ pushed' # pushed =>
                     /\ pushed' = Append(pushed, Pushed(EntityPath(f, e.block.name), e, FALSE))
                     /\ ~HasFile(Folder(f), slug \o Md)
                     /\ IF f = "people"
                        THEN HasFile(people', slug \o Md) /\ Len(people') = Len(people) + 1
                        ELSE HasFile(projects', slug \o Md) /\ Len(projects') = Len(projects) + 1

\* The update branch of an upsert: the record is pushed as an update of the
\* first listed file whose name contains the slug, which is <folder>/<slug>.md
\* whenever that file is the first of them; no file is added
UpsertUpdate ==
    (pc = "merge" /\ pushed' # pushed) =>
        LET e == Head(other_notes)
            f == e.block.type
            M == Matches(Folder(f), make_slug(e.block.name))
        IN /\ M # {}
           /\ pushed' = Append(pushed, Pushed(<<f, Folder(f)[FirstOf(M)].name>>, e, TRUE))
           /\ Len(people') = Len(people) /\ Len(projects') = Len(projects)
           /\ Folder(f)[FirstOf(M)].name = make_slug(e.block.name) \o Md
                 => pushed'[Len(pushed')].path = EntityPath(f, e.block.name)

OneAttemptPerRecord ==
    \A a, b \in 1 .. Len(attempts) : attempts[a].i = attempts[b].i => a = b

\* C7: when the update branch of an upsert ends and the store no longer holds
\* the content the upsert read, both folders are as the other writer left
\* them, the record is not pushed, and at most one write call, a failed one,
\* was made for it; no record of a run is ever given two write calls.
StaleUpdateRejected ==
    /\ []OneAttemptPerRecord
    /\ [][ ( /\ pc = "merge" /\ pc' = "push"
             /\ StoredAt(existing[1].path) # existing[1].content )
           => /\ people' = people /\ projects' = projects
              /\ pushed' = pushed
              /\ \/ attempts' = attempts
                 \/ /\ Len(attempts') = Len(attempts) + 1
                    /\ SubSeq(attempts', 1, Len(attempts)) = attempts
                    /\ ~attempts'[Len(attempts')].ok
       ]_vars

\* An update was rejected for its token and the document it was for carries
\* the other writer's edit and no bullet of this run
C7Witness ==
    /\ pc = "push"
    /\ pushed = <<>>
    /\ \E k \in 1 .. Len(attempts) :
          /\ attempts[k].op = "update" /\ ~attempts[k].ok
          /\ attempts[k].why = "conflict"
          /\ StoredAt(attempts[k].path) =
                [fm |-> <<"A", "l">>, obs |-> 1, edits |-> 1, links |-> <<>>]

\* C8: a run in which an update was rejected for its token ends with an
\* answer of a kind of its own, "conflict".
ConflictSurfacedToUser ==
    [][ ( /\ pc = "push" /\ pc' = "idle"
          /\ \E k \in 1 .. Len(attempts) : attempts[k].why = "conflict" )
        => reply'.kind = "conflict"
    ]_vars

\* C9: a run that ends without a pushed record answers that no notes were
\* created and leaves the queue and the pending questions as they were when
\* the run started.
NothingPushedKeepsQueue ==
    [][ (pc = "push" /\ pc' = "idle" /\ pushed = <<>>)
        => /\ reply'.kind = "no_notes"
           /\ note_queue' = queue_snapshot
           /\ pending_questions' = pq_before
           /\ assigned' = assigned
    ]_vars

\* The run has ended with that answer; two notes are queued, a question is
\* outstanding
C9Witness ==
    /\ reply.kind = "no_notes"
    /\ pc = "idle"
    /\ Len(note_queue) = 2
    /\ DOMAIN pending_questions # {}

\* C10: a run that ends with a pushed record ends with the queue and the
\* pending questions empty.
PushedRunClearsQueue ==
    [][ (pc = "push" /\ pc' = "idle" /\ pushed # <<>>)
        => note_queue' = <<>> /\ pending_questions' = NoQuestions
    ]_vars

\* One of two records was pushed and the journal write failed; the queue and
\* the pending questions are empty
C10Witness ==
    /\ reply.kind = "done"
    /\ reply.count = 1
    /\ ~reply.journal_ok
    /\ journal = <<>>
    /\ note_queue = <<>>
    /\ DOMAIN pending_questions = {}

\* C11 -------------------------------------------------------------------
OkAttempts == SelectSeq(attempts, LAMBDA a : a.ok)

\* The pushed records are the records whose write call returned, in call order
PushedAreTheWritten ==
    /\ Len(pushed) = Len(OkAttempts)
    /\ \A k \in 1 .. Len(pushed) :
          /\ pushed[k].path = OkAttempts[k].path
          /\ pushed[k].type = OkAttempts[k].type

\* One iteration of either loop takes the first record that is left, leaves
\* the records after it to be taken, and pushes that record or nothing
OneRecordPerIteration ==
    ( /\ pc # "idle" /\ pc' # "idle"
      /\ <<task_notes, other_notes>>' # <<task_notes, other_notes>> )
    => LET inTasks == task_notes # <<>>
           e == IF inTasks THEN Head(task_notes) ELSE Head(other_notes)
       IN /\ IF inTasks
             THEN task_notes' = Tail(task_notes) /\ other_notes' = other_notes
             ELSE other_notes' = Tail(other_notes) /\ task_notes' = task_notes
          /\ \/ pushed' = pushed
             \/ /\ Len(pushed') = Len(pushed) + 1
                /\ SubSeq(pushed', 1, Len(pushed)) = pushed
                /\ pushed'[Len(pushed')].title = e.block.name
                /\ pushed'[Len(pushed')].type = e.block.type
                /\ pushed'[Len(pushed')].source_index = e.source_i

\* A run ends only when no record is left in either loop
RunEndsWhenAllTaken ==
    (pc # "idle" /\ pc' = "idle") => task_notes = <<>> /\ other_notes = <<>>

\* C11: a write that fails keeps only its own record out of the pushed
\* records: the pushed records are exactly the records whose write returned,
\* every iteration of the task loop and of the loop over the other records
\* takes one record and leaves the rest to be taken, whatever its outcome, and
\* the run does not end before both loops have taken every record.
FailedWriteExcludesOnlyItsRecord ==
    /\ []PushedAreTheWritten
    /\ [][OneRecordPerIteration /\ RunEndsWhenAllTaken]_vars

\* The write of a tasks record failed, the write of the people record after
\* it returned, and the run went on to its end
C11Witness ==
    /\ PipelineDone
    /\ Len(attempts) = 2
    /\ attempts[1].type = "tasks" /\ ~attempts[1].ok
    /\ attempts[2].type = "people" /\ attempts[2].ok
    /\ Len(pushed) = 1
    /\ pushed[1].type = "people"

\* C12 -------------------------------------------------------------------
\* The links of the tasks records written so far for source index s, in the
\* order they were written
WrittenTaskLinks(s) ==
    LET ts == SelectSeq(pushed, LAMBDA p : p.type = "tasks" /\ p.source_index = s)
    IN [k \in 1 .. Len(ts) |-> obsidian_link(ts[k].path, ts[k].title)]

\* C12: every write call for a people or projects record carries exactly the
\* links of the tasks records of its source index that were written in this
\* run, in write order, and the profile such a call creates holds those links.
AttachedLinksAreWrittenTasks ==
    /\ [](\A k \in 1 .. Len(attempts) :
              attempts[k].type \in EntityTypes
                  => attempts[k].links = WrittenTaskLinks(attempts[k].source_i))
    /\ [][\A listed, created \in BOOLEAN :
              (UpsertFind(listed, created) /\ pushed' # pushed)
              => LET e == Head(other_notes)
                     after == IF e.block.type = "people" THEN people' ELSE projects'
                     k == CHOOSE k \in 1 .. Len(after) :
                              after[k].name = make_slug(e.block.name) \o Md
                 IN after[k].content.links = WrittenTaskLinks(e.source_i)
       ]_vars

\* One note gave a tasks record, which was written, and a people record: the
\* new profile was created with the link of the task
C12Witness ==
    /\ Len(queue_snapshot) = 1
    /\ Len(attempts) = 2
    /\ attempts[1].type = "tasks" /\ attempts[1].ok
    /\ attempts[2].type = "people" /\ attempts[2].op = "create" /\ attempts[2].ok
    /\ attempts[2].links = <<obsidian_link(attempts[1].path, <<"t">>)>>
    /\ Len(people) = 2

\* C13 -------------------------------------------------------------------
\* The positions of the markers in a request, and the n-th smallest of them
MarkerPositions(m) == {k \in 1 .. Len(m) : m[k].kind = "marker"}

NthOf(S, n) == CHOOSE k \in S : Cardinality({j \in S : j < k}) = n - 1

\* The parts between the n-th marker and the next marker (or the end)
SegmentOf(m, n) ==
    LET P    == MarkerPositions(m)
        from == NthOf(P, n) + 1
        to   == IF n < Cardinality(P) THEN NthOf(P, n + 1) - 1 ELSE Len(m)
    IN SubSeq(m, from, to)

\* What the request holds for one note: its payload, then its clarification
\* if it has one
PayloadOf(note) ==
    IF note.type = "text" THEN <<[kind |-> "text", n |-> 0, text |-> note.content]>>
    ELSE IF note.caption = <<>> THEN <<[kind |-> "image", n |-> 0, text |-> <<>>]>>
    ELSE <<[kind |-> "caption", n |-> 0, text |-> note.caption],
           [kind |-> "image", n |-> 0, text |-> <<>>]>>

AddendumOf(note) ==
    IF note.clarification = None THEN <<>>
    ELSE <<[kind |-> "clarification", n |-> 0, text |-> note.clarification[1]]>>

\* C13: the request of a run starts with the prompt of the mode and then
\* holds, for the notes of the snapshot in queue order, the marker numbered
\* with the note's position, the note's payload, and the clarification
\* addendum if and only if the note has a clarification; it holds as many
\* markers as the snapshot holds notes.
RequestFollowsQueue ==
    pc # "idle" =>
        LET N == Len(queue_snapshot)
            P == MarkerPositions(messages)
        IN /\ messages[1].kind =
                  (IF personal_mode THEN "personal_prompt" ELSE "work_prompt")
           /\ Cardinality(P) = N
           /\ 2 \in P
           /\ \A n \in 1 .. N :
                 /\ messages[NthOf(P, n)].n = n
                 /\ SegmentOf(messages, n) =
                        PayloadOf(queue_snapshot[n]) \o AddendumOf(queue_snapshot[n])

\* A run on two notes that are the same
C13Witness ==
    /\ pc = "push"
    /\ Len(queue_snapshot) = 2
    /\ queue_snapshot[1].type = queue_snapshot[2].type
    /\ queue_snapshot[1] = queue_snapshot[2]
    /\ Len(messages) = 5

\* C14 -------------------------------------------------------------------
\* Every pending question refers to a note of the queue, and the answer of
\* the stale-index branch has never been given
PendingWithinQueue ==
    /\ \A m \in DOMAIN pending_questions : pending_questions[m] < Len(note_queue)
    /\ reply.kind # "not_found"

\* A new entry is the question just sent for the note just appended; an entry
\* that stays keeps its index and its note; an entry goes only with its
\* answer, which clarifies its note, or when the queue and the map are emptied
PendingFollowsItsNote ==
    /\ \A m \in DOMAIN pending_questions' \ DOMAIN pending_questions :
          /\ m = nextMsgId + 1
          /\ DOMAIN pending_questions' = DOMAIN pending_questions \cup {m}
          /\ Len(note_queue') = Len(note_queue) + 1
          /\ pending_questions'[m] = Len(note_queue') - 1
    /\ \A m \in DOMAIN pending_questions \cap DOMAIN pending_questions' :
          /\ pending_questions'[m] = pending_questions[m]
          /\ pending_questions[m] < Len(note_queue')
          /\ SameNote(note_queue'[pending_questions[m] + 1],
                      note_queue[pending_questions[m] + 1])
    /\ \A m \in DOMAIN pending_questions \ DOMAIN pending_questions' :
          \/ note_queue' = <<>> /\ pending_questions' = NoQuestions
          \/ /\ DOMAIN pending_questions' = DOMAIN pending_questions \ {m}
             /\ Len(note_queue') = Len(note_queue)
             /\ note_queue[pending_questions[m] + 1].clarification = None
             /\ note_queue'[pending_questions[m] + 1].clarification # None
             /\ reply'.kind = "context_added"

\* C14: with one update handled at a time, every entry of the map of pending
\* questions holds an index below the length of the queue, the index of the
\* note whose intake sent the question; an entry is removed only by its
\* answer or together with the whole queue; the stale-index answer is never
\* given.
PendingEntriesAreNeverStale ==
    /\ []PendingWithinQueue
    /\ [][PendingFollowsItsNote]_vars

\* Two notes were asked about; the first has been answered, the question
\* about the second is outstanding
C14Witness ==
    /\ Len(note_queue) = 2
    /\ note_queue[1].clarification # None
    /\ Cardinality(DOMAIN pending_questions) = 1
    /\ \E m \in DOMAIN pending_questions : pending_questions[m] = 1

\* C15 -------------------------------------------------------------------
\* No note has two outstanding questions, and a note with an outstanding
\* question has no clarification yet
OneOpenQuestionPerNote ==
    \A m \in DOMAIN pending_questions :
        /\ \A o \in DOMAIN pending_questions :
              pending_questions[o] = pending_questions[m] => o = m
        /\ pending_questions[m] < Len(note_queue)
        /\ note_queue[pending_questions[m] + 1].clarification = None

\* A clarification, once set, stays as it is while the note is in the queue
ClarificationKept ==
    \A k \in 1 .. Len(note_queue) :
        (note_queue[k].clarification # None /\ k <= Len(note_queue'))
            => note_queue'[k].clarification = note_queue[k].clarification

\* C15: a queued note never has more than one outstanding question, none
\* once it has a clarification, and no event changes a clarification that
\* has been set.
ClarificationSetAtMostOnce ==
    /\ []OneOpenQuestionPerNote
    /\ [][ClarificationKept]_vars

\* Both notes of the queue have been asked about and answered, with
\* different texts
C15Witness ==
    /\ Len(note_queue) = 2
    /\ note_queue[1].clarification # None
    /\ note_queue[2].clarification # None
    /\ note_queue[1].clarification # note_queue[2].clarification
    /\ DOMAIN pending_questions = {}

\* C16 -------------------------------------------------------------------
\* The first character of a text that is not whitespace is @, # or !
Sentinel(t) ==
    \E k \in 1 .. Len(t) :
        /\ t[k] \in {"@", "#", "!"}
        /\ \A j \in 1 .. k - 1 : t[j] = " "

\* Texts with each of the prefixes, with and without leading whitespace, and
\* texts that hold a prefix character further on
PrefixSamples ==
    { <<c, "a">> : c \in {"@", "#", "!"} }
    \cup { <<" ", c, "a">> : c \in {"@", "#", "!"} }
    \cup { <<" ", " ", c>> : c \in {"@", "#", "!"} }
    \cup { <<"a", c>> : c \in {"@", "#", "!"} }
    \cup { <<>>, <<" ">>, <<"a">>, <<" ", "a", " ">> }

\* The classifier is asked about a text only if the text has no prefix
ClassifierSkippedForPrefixed ==
    \A t \in PrefixSamples \cup Texts :
        Sentinel(t) => NeedsQuestionOutcomes(t) = {FALSE}

\* Every outstanding question is about an image or about an unprefixed text
QuestionsOnlyForUnprefixed ==
    \A m \in DOMAIN pending_questions :
        pending_questions[m] < Len(note_queue) =>
            LET note == note_queue[pending_questions[m] + 1]
            IN note.type = "text" => ~Sentinel(note.content)

\* The intake of a prefixed text appends the note, adds no pending question
\* and answers that the note is queued
PrefixedTextIsQueued ==
    \A t \in Texts :
        (Sentinel(t) /\ \E r \in {None} \cup {Some(m) : m \in MsgIds} :
                            HandleText(r, t) /\ Len(note_queue') = Len(note_queue) + 1)
        => /\ pending_questions' = pending_questions
           /\ reply'.kind = "queued"

\* C16: a text whose first non-whitespace character is @, # or ! is enqueued
\* without a question to the classifier and without a pending question;
\* every pending question about a text is about an unprefixed text.
PrefixedTextNeverAsked ==
    /\ [](ClassifierSkippedForPrefixed /\ QuestionsOnlyForUnprefixed)
    /\ [][PrefixedTextIsQueued]_vars

\* A prefixed text with leading whitespace was queued after an unprefixed
\* text that was asked about
C16Witness ==
    /\ reply.kind = "queued"
    /\ Len(note_queue) = 2
    /\ note_queue[2].type = "text"
    /\ note_queue[2].content = <<" ", "@", "a">>
    /\ note_queue[1].type = "text"
    /\ DOMAIN pending_questions # {}

-----------------------------------------------------------------------------
\* C17.  A meetings record is written by a create and by nothing else, the
\* documents of earlier meetings stay as they were, and every occurrence of
\* a meeting adds a file of its own to the folder whenever the store is
\* otherwise willing to create it.

EarlierMeetingsKept(before, after) ==
    \A k \in 1..Len(before) : \E j \in 1..Len(after) : after[j] = before[k]

MeetingsAccumulate ==
    [][\A id \in NoteIds, created \in BOOLEAN :
          PushMeeting(id, created) =>
              /\ attempts'[Len(attempts')].op = "create"
              /\ EarlierMeetingsKept(meetings, meetings')
              /\ created => Len(meetings') = Len(meetings) + 1]_vars


-----------------------------------------------------------------------------
\* C18.  The lookup of an upsert decides on the names of the folder alone:
\* when no file name of the folder contains the slug of the record the upsert
\* creates <folder>/<slug>.md (if the store lets it), and when some file name
\* does, it turns to the first such file of the listing to update it and
\* creates nothing.

UpsertCreatesIffNoMatch ==
    [][\A listed, created \in BOOLEAN :
          UpsertFind(listed, created) =>
              LET e    == Head(other_notes)
                  f    == e.block.type
                  slug == make_slug(e.block.name)
                  M    == Matches(Folder(f), slug)
              IN /\ M = {} =>
                       /\ Len(attempts') = Len(attempts) + 1
                       /\ attempts'[Len(attempts')].op = "create"
                       /\ attempts'[Len(attempts')].path = EntityPath(f, e.block.name)
                       /\ created =>
                             IF f = "people"
                             THEN Len(people') = Len(people) + 1
                             ELSE Len(projects') = Len(projects) + 1
                 /\ M # {} =>
                       /\ pc' = "merge"
                       /\ existing' # None
                       /\ existing'[1].path = <<f, Folder(f)[FirstOf(M)].name>>
                       /\ attempts' = attempts
                       /\ people' = people /\ projects' = projects]_vars


-----------------------------------------------------------------------------
\* C19.  The journal of the day is append-only.  A journal always starts
\* with the date header; a journal write of the bot that succeeds leaves the
\* stored content followed by the new block (the header followed by the block
\* when there was no journal), a journal write that fails leaves the stored
\* content as it is, and no step of the system removes or replaces a block
\* the journal held.

IsPrefix(a, b) == Len(a) <= Len(b) /\ SubSeq(b, 1, Len(a)) = a

JournalStartsWithHeader ==
    journal # <<>> => Len(journal) >= 2 /\ journal[1] = JournalHeader

BlockAppended(stored, section) ==
    IF stored = <<>> THEN <<JournalHeader, section>> ELSE Append(stored, section)

SessionWriteAppends ==
    \A outcome \in JournalOutcomes :
        ProcessFinish(outcome) =>
            LET stored == StoredJournal(journal, outcome) IN
            IF reply'.journal_ok
            THEN journal' = BlockAppended(stored, SessionBlock(queue_snapshot, pushed))
            ELSE journal' = stored

PendingWriteAppends ==
    \A outcome \in JournalOutcomes :
        CmdPending(outcome) =>
            LET stored == StoredJournal(journal, outcome) IN
            IF reply'.kind = "saved"
            THEN journal' = BlockAppended(stored, PendingBlock(note_queue))
            ELSE journal' = stored

NothingRemoved == IsPrefix(journal, journal')

JournalIsAppendOnly ==
    /\ []JournalStartsWithHeader
    /\ [][SessionWriteAppends /\ PendingWriteAppends /\ NothingRemoved]_vars

\* A first /pending created the journal with the header and its block, and a
\* second /pending appended its block to it
C19Witness ==
    /\ Len(journal) = 3
    /\ journal[1] = JournalHeader
    /\ journal[2].kind = "pending"
    /\ journal[3].kind = "pending"
    /\ reply.kind = "saved"


-----------------------------------------------------------------------------
\* C20.  The block a processing session adds to the journal lists the raw
\* notes of the snapshot once each, in queue order, and under raw note s the
\* records of the run that were written and whose position modulo the number
\* of notes is s, in the order of their writes, once each and nowhere else;
\* the link of a record names the document that was written and is marked
\* updated exactly when the write was the update of an existing document.

WrittenUnder(s, n) == SelectSeq(OkAttempts, LAMBDA a : a.i % n = s)

LinkOfAttempt(line, a) ==
    /\ line.emoji = a.type
    /\ line.link.target = <<a.path[1], RemoveMd(a.path[2])>>
    /\ line.updated = (a.op = "update")

SessionBlockFollowsRun(block) ==
    LET n == Len(queue_snapshot) IN
    /\ block.kind = "session"
    /\ Len(block.notes) = n
    /\ \A s \in 1 .. n :
          /\ block.notes[s].preview = SessionPreview(queue_snapshot[s])
          /\ block.notes[s].clarification = queue_snapshot[s].clarification
          /\ Len(block.notes[s].links) = Len(WrittenUnder(s - 1, n))
          /\ \A k \in 1 .. Len(block.notes[s].links) :
                LinkOfAttempt(block.notes[s].links[k], WrittenUnder(s - 1, n)[k])

SessionBlockLinksEveryRecordOnce ==
    [][\A outcome \in JournalOutcomes :
          (ProcessFinish(outcome) /\ reply'.journal_ok)
              => /\ Len(journal') >= 2
                 /\ SessionBlockFollowsRun(journal'[Len(journal')])]_vars

\* A run on one raw note pushed two records, a created one and then an
\* updated one; the session block lists both under that note, the second
\* marked updated
C20Witness ==
    /\ reply.kind = "done"
    /\ reply.journal_ok
    /\ journal # <<>>
    /\ LET block == journal[Len(journal)] IN
       /\ block.kind = "session"
       /\ Len(block.notes) = 1
       /\ Len(block.notes[1].links) = 2
       /\ ~block.notes[1].links[1].updated
       /\ block.notes[1].links[2].updated


-----------------------------------------------------------------------------
\* C21.  An image that arrives without a caption is asked about; and in the
\* block a processing session adds to the journal, the preview of an image
\* note that carries the answer to that question is the image tag followed by
\* some text (the answer, or text made from it), and the records written for
\* that note are linked under it.

CaptionlessImageIsAsked ==
    HandleImage(<<>>) =>
        /\ DOMAIN pending_questions' = DOMAIN pending_questions \cup {nextMsgId + 1}
        /\ pending_questions'[nextMsgId + 1] = Len(note_queue)
        /\ reply'.kind = "image_question"

AnsweredImageShown(block, n) ==
    \A s \in 1 .. n :
        ( /\ queue_snapshot[s].type = "image"
          /\ queue_snapshot[s].caption = <<>>
          /\ queue_snapshot[s].clarification # None )
        => /\ Len(block.notes[s].preview) > 1
           /\ block.notes[s].preview[1] = ImageTag
           /\ Len(block.notes[s].links) = Len(WrittenUnder(s - 1, n))

AnsweredImagePreviewedWithAnswer ==
    [][ /\ CaptionlessImageIsAsked
        /\ \A outcome \in JournalOutcomes :
              (ProcessFinish(outcome) /\ reply'.journal_ok)
                  => AnsweredImageShown(journal'[Len(journal')], Len(queue_snapshot))
      ]_vars


-----------------------------------------------------------------------------
\* C22.  An update of an entity document leaves its front matter as it was
\* read: the document the store holds after the update of an upsert carries
\* the front matter of the document find_existing_file returned, whatever the
\* merge call answered.

WrittenBack(listing, name) ==
    listing[CHOOSE k \in 1 .. Len(listing) : listing[k].name = name].content

MergeKeepsFrontMatter ==
    [][ (pc = "merge" /\ pushed' # pushed)
        => LET path  == existing[1].path
               after == IF path[1] = "people" THEN people' ELSE projects'
           IN WrittenBack(after, path[2]).fm = existing[1].content.fm
      ]_vars


\* C23: a run of cmd_process that wrote a record and in which the write of
\* another record failed ends with an answer that states a count of failed
\* records, and that count is not zero.
FailedWrites ==
    Cardinality({ k \in 1 .. Len(attempts) : ~attempts[k].ok })

RunReportsFailedCount ==
    [][ (pc = "push" /\ pc' = "idle" /\ pushed # <<>> /\ FailedWrites > 0)
        => /\ "failed" \in DOMAIN reply'
           /\ reply'.failed > 0
    ]_vars


\* C24: a run of cmd_process whose structuring call raises writes nothing to
\* the store, attempts no write of a record, answers with the error, and
\* leaves the queue with the clarifications of its notes, the pending
\* questions and the mode as they were.
FailedStructuringChangesNothing ==
    [][ ProcessStart(None)
        => /\ UNCHANGED <<people, projects, meetings, journal>>
           /\ attempts' = <<>>
           /\ pc' = "idle"
           /\ reply'.kind = "error"
           /\ note_queue' = note_queue
           /\ pending_questions' = pending_questions
           /\ personal_mode' = personal_mode
    ]_vars

\* the structuring call has raised for a queue that holds an answered note
C24Witness ==
    /\ reply = [kind |-> "error", e |-> "claude"]
    /\ pc = "idle"
    /\ \E i \in 1 .. Len(note_queue) : note_queue[i].clarification # None


\* C25: cmd_pending on a non-empty queue either adds to the journal of the
\* day one pending block that lists every note of the queue in the order of
\* the queue, empties the queue and the pending questions and answers
\* "saved", or, when the write of the journal fails, adds no block of its
\* own, answers with the error and leaves the queue and the pending questions
\* as they were; on an empty queue it changes neither the store nor the state
\* of the bot.
ListsQueue(block, q) ==
    /\ block.kind = "pending"
    /\ Len(block.previews) = Len(q)
    /\ \A k \in 1 .. Len(q) : block.previews[k] = PendingPreview(q[k])

PendingSaved ==
    /\ reply'.kind = "saved"
    /\ Len(journal') = (IF journal = <<>> THEN 1 ELSE Len(journal)) + 1
    /\ \A k \in 1 .. Len(journal) : journal'[k] = journal[k]
    /\ ListsQueue(journal'[Len(journal')], note_queue)
    /\ note_queue' = <<>>
    /\ pending_questions' = NoQuestions

PendingFailed ==
    /\ reply'.kind = "error"
    /\ \A k \in 1 .. Len(journal') : journal'[k].kind # "pending" \/ 
            (k <= Len(journal) /\ journal'[k] = journal[k])
    /\ note_queue' = note_queue
    /\ pending_questions' = pending_questions

PendingSavesOrKeeps ==
    [][ /\ (\E outcome \in JournalOutcomes : CmdPending(outcome))
            => (PendingSaved \/ PendingFailed)
        /\ CmdPendingEmpty
            => UNCHANGED <<note_queue, pending_questions, personal_mode,
                           people, projects, meetings, journal>>
    ]_vars

\* two notes were saved as pending by one cmd_pending
C25Witness ==
    /\ reply = [kind |-> "saved", count |-> 2]
    /\ note_queue = <<>>
    /\ journal # <<>>
    /\ journal[Len(journal)].kind = "pending"
    /\ Len(journal[Len(journal)].previews) = 2
    /\ journal[Len(journal)].previews[1] # journal[Len(journal)].previews[2]


\* C26: with handlers interleaving at their awaits, a run of cmd_process that
\* clears the queue clears exactly the notes of its snapshot, and a
\* cmd_pending that clears the queue has listed every note of the queue in
\* the block it wrote: no note taken in while a run waits for a message to be
\* sent is removed without having been handed on.
RunsClearTheirSnapshot ==
    [][ /\ (\E outcome \in JournalOutcomes : ProcessFinish(outcome))
            => /\ note_queue' = <<>>
               /\ note_queue = queue_snapshot
        /\ ((\E outcome \in JournalOutcomes : CmdPending(outcome)) /\ note_queue' # note_queue)
            => /\ note_queue' = <<>>
               /\ ListsQueue(journal'[Len(journal')], note_queue)
    ]_vars

\* a run is about to clear a queue to which a note was added after it had
\* announced the count of the notes
C26Witness ==
    /\ PipelineDone
    /\ pushed # <<>>
    /\ reply.kind = "processing"
    /\ reply.count < Len(queue_snapshot)
    /\ note_queue = queue_snapshot


\* C27: with handlers interleaving at their awaits, the answer to a question
\* is attached to the note whose intake asked that question: when a reply to
\* question m adds its text to the note at the index kept for m, that note is
\* the one the intake that asked m had put in the queue.
AnswerReachesAskedNote ==
    [][ \A m \in DOMAIN asked \cap DOMAIN pending_questions, t \in Texts :
            (HandleText(Some(m), t) /\ reply'.kind = "context_added")
                => SameNote(note_queue[pending_questions[m] + 1], asked[m])
    ]_vars


\* C28: an update of a sender other than the allowed user, whatever handler it
\* reaches, changes neither the queue, the pending questions, the mode, the
\* store, the messages of the chat nor any handler in progress: it is only
\* dropped.
StrangersChangeNothing ==
    [][ \A user \in Users \ {ALLOWED_USER_ID} :
            Event(user)
                => /\ UNCHANGED <<note_queue, pending_questions, personal_mode>>
                   /\ UNCHANGED <<people, projects, meetings, journal>>
                   /\ UNCHANGED <<nextMsgId, reply>>
                   /\ UNCHANGED <<runVars, suspended>>
    ]_vars

\* an update of another sender was dropped and the bot holds a note, a
\* pending question and a journal
C28Witness ==
    /\ ignored
    /\ note_queue # <<>>
    /\ DOMAIN pending_questions # {}
    /\ journal # <<>>

====
